---- MODULE Spec2Model ----
(***************************************************************************)
(* Model of the scheduling engine of gordpool (package planner):           *)
(* inferResolutionMinutes, slotsForHours, groupConsecutiveSlots and        *)
(* BuildBatterySchedule.                                                   *)
(*                                                                         *)
(* Units.  A time.Time is an integer number of minutes since a fixed UTC   *)
(* midnight (the price source delivers whole-minute instants).  A price    *)
(* (float64, cents/kWh) is an integer number of half cents, so that 8.5    *)
(* c/kWh is 17; an hour budget (float64, hours) is an integer number of    *)
(* half hours.  On these values every float64 operation of the code is     *)
(* exact, so integer arithmetic computes what the code computes.           *)
(***************************************************************************)
EXTENDS Integers, Sequences, FiniteSets, Bags, TLC

VARIABLES
    \* one call of BuildBatterySchedule
    prices,      \* argument prices []PriceSlot
    params,      \* argument params BatteryStrategyParams
    now,         \* argument now time.Time
    pc,          \* "call" | "returned" | "panicked"
    locals,      \* the locals of the call when it ended
    schedule,    \* the ScheduleJSON returned
    \* one call of groupConsecutiveSlots
    gSlots,      \* argument slots []PriceSlot (sorted in place by the call)
    gResolution, \* argument resolutionMinutes
    gPc,         \* "call" | "returned"
    gGroups,     \* the local groups [][]PriceSlot when the call ended
    gIntervals,  \* the []IntervalJSON returned
    \* one call of inferResolutionMinutes
    iPrices,     \* argument prices []PriceSlot
    iPc,         \* "call" | "returned"
    iResult,     \* the int returned
    \* concurrent calls of BuildBatterySchedule on one prices slice
    heap,        \* the contents of each backing array, by address
    cParams,     \* argument params of each call
    cPc,         \* the statement each call is at
    cLocals,     \* the scalar locals and the intervals of each call
    cResult,     \* the ScheduleJSON each call returned
    \* calls of FetchNordpoolPricesCachedWithBase, one after the other
    clock,       \* time.Now()
    cache,       \* the rows of table prices
    found,       \* the rows of table prices when the call under way began
    fPc,         \* the statement the call is at
    fLocals,     \* the locals of the call
    fResult,     \* the ([]PriceSlot, error) returned
    contacted,   \* whether the call has sent a request upstream
    \* the service worker answering API requests (sw.js)
    wClock,      \* Date.now()
    wCache,      \* the entry of the request in cache gordpool-api-v1
    wPut,        \* the cache.put each handler started that has not settled
    wPc,         \* the await each handler is at
    wLocals,     \* the locals of each handler
    wResult      \* what each handler answered

vars == <<prices, params, now, pc, locals, schedule,
          gSlots, gResolution, gPc, gGroups, gIntervals,
          iPrices, iPc, iResult,
          heap, cParams, cPc, cLocals, cResult,
          clock, cache, found, fPc, fLocals, fResult, contacted,
          wClock, wCache, wPut, wPc, wLocals, wResult>>

buildVars == <<prices, params, now, pc, locals, schedule>>
groupVars == <<gSlots, gResolution, gPc, gGroups, gIntervals>>
inferVars == <<iPrices, iPc, iResult>>
concVars == <<heap, cParams, cPc, cLocals, cResult>>
cacheVars == <<clock, cache, found, fPc, fLocals, fResult, contacted>>
swVars == <<wClock, wCache, wPut, wPc, wLocals, wResult>>

----------------------------------------------------------------------------
(* Bounds and input domains *)

\* longest price sequence given to BuildBatterySchedule
MaxLen == 3
\* longest slot sequence given to groupConsecutiveSlots
MaxGroupLen == 4
\* longest price sequence given to inferResolutionMinutes
MaxInferLen == 4
\* longest price sequence shared by the concurrent calls
MaxConcLen == 2
\* how often the clock is seen to advance
MaxTicks == 3
\* the last UTC day the service worker is seen to run on
MaxSwDay == 0

\* c cents/kWh in half cents
Cents(c) == 2 * c
\* h hours in half hours
Hours(h) == 2 * h

\* All sequences over S of length at most n
SeqUpTo(S, n) == UNION {[1..k -> S] : k \in 0..n}

Range(s) == {s[i] : i \in DOMAIN s}

RECURSIVE SumSeq(_)
SumSeq(s) == IF s = <<>> THEN 0 ELSE Head(s) + SumSeq(Tail(s))

PriceSlot(ts, p) == [Timestamp |-> ts, Price |-> p]

----------------------------------------------------------------------------
(* Library behaviour the code relies on *)

\* sort.Slice(s, less) where less compares keys[i] < keys[j]: sort.Slice is
\* not stable, so elements with equal keys may come out in any order.  The
\* set of index orders the sort may produce.
RECURSIVE SortOrders(_, _)
SortOrders(keys, rem) ==
    IF rem = {} THEN {<<>>}
    ELSE UNION { { <<i>> \o t : t \in SortOrders(keys, rem \ {i}) } :
                 i \in {j \in rem : \A k \in rem : keys[j] <= keys[k]} }

\* The slices sort.Slice may leave for s sorted by ascending keys
SortSlice(s, keys) ==
    { [n \in 1..Len(s) |-> s[p[n]]] : p \in SortOrders(keys, 1..Len(s)) }

\* sort.Float64s: equal floats are indistinguishable, one outcome
SortFloat64s(d) == CHOOSE r \in SortSlice(d, d) : TRUE

\* math.Round of n2/2: nearest integer, halves away from zero
RoundHalf(n2) ==
    IF n2 >= 0 THEN (n2 + 1) \div 2 ELSE -((1 - n2) \div 2)

\* math.Ceil(a / b) for b # 0
CeilDiv(a, b) ==
    IF b > 0 THEN -((-a) \div b) ELSE -(a \div (-b))

\* time.Time.Format(time.RFC3339) of a UTC instant: its date-time fields
FormatRFC3339(t) == [hour |-> t \div 60, minute |-> t % 60]

\* time.Parse(time.RFC3339, s): the instant the fields denote
ParseRFC3339(s) == s.hour * 60 + s.minute

----------------------------------------------------------------------------
(* inferResolutionMinutes *)

Deltas(ps) ==
    [i \in 1..(Len(ps) - 1) |-> ps[i + 1].Timestamp - ps[i].Timestamp]

\* Mutant: the upper middle delta taken for an even count too
Median2_UpperMiddle(sorted) == 2 * sorted[Len(sorted) \div 2 + 1]

\* twice the median of the sorted deltas
Median2(sorted) ==
    LET mid == Len(sorted) \div 2 IN
    IF Len(sorted) % 2 = 0
    THEN sorted[mid] + sorted[mid + 1]
    ELSE 2 * sorted[mid + 1]

inferResolutionMinutes(ps) ==
    IF Len(ps) < 2 THEN 60
    ELSE RoundHalf(Median2(SortFloat64s(Deltas(ps))))

----------------------------------------------------------------------------
(* slotsForHours *)

\* The largest int.  It stands for math.MaxInt64 and is only ever compared
\* with slice lengths.
IntMax == 2147483647
IntMin == -IntMax

\* The builds of the repository: linux/amd64 servers and the js/wasm bundle
Archs == {"amd64", "wasm"}

\* int(f) for f = +Inf, -Inf or NaN is implementation-dependent: amd64 yields
\* the smallest int for all three; wasm saturates and turns NaN into 0.
IntOfNonFinite(f, arch) ==
    IF arch = "amd64" THEN IntMin
    ELSE CASE f = "+Inf" -> IntMax
           [] f = "-Inf" -> IntMin
           [] OTHER      -> 0

\* maxHours * 60, maxHours in half hours
TotalMinutes(maxHours) == maxHours * 30

\* Mutant: the hour budget counted twice
slotsForHours_DoubledHours(maxHours, resolutionMinutes, arch) ==
    LET totalMinutes == TotalMinutes(maxHours + maxHours) IN
    IF resolutionMinutes # 0 THEN CeilDiv(totalMinutes, resolutionMinutes)
    ELSE IntOfNonFinite(IF totalMinutes > 0 THEN "+Inf"
                        ELSE IF totalMinutes < 0 THEN "-Inf" ELSE "NaN", arch)

\* Mutant: the ceiling taken as quotient plus one
slotsForHours_QuotientPlusOne(maxHours, resolutionMinutes, arch) ==
    LET totalMinutes == TotalMinutes(maxHours) IN
    IF resolutionMinutes # 0 THEN CeilDiv(totalMinutes, resolutionMinutes) + 1
    ELSE IntOfNonFinite(IF totalMinutes > 0 THEN "+Inf"
                        ELSE IF totalMinutes < 0 THEN "-Inf" ELSE "NaN", arch)

slotsForHours(maxHours, resolutionMinutes, arch) ==
    LET totalMinutes == TotalMinutes(maxHours) IN
    IF resolutionMinutes # 0 THEN CeilDiv(totalMinutes, resolutionMinutes)
    ELSE IntOfNonFinite(IF totalMinutes > 0 THEN "+Inf"
                        ELSE IF totalMinutes < 0 THEN "-Inf" ELSE "NaN", arch)

----------------------------------------------------------------------------
(* groupConsecutiveSlots *)

\* A Go slice value that may be nil
NilSlice == [isNil |-> TRUE, elems |-> <<>>]
Slice(e) == [isNil |-> FALSE, elems |-> e]

RECURSIVE Gcd(_, _)
Gcd(a, b) == IF b = 0 THEN a ELSE Gcd(b, a % b)

Abs(x) == IF x < 0 THEN -x ELSE x

\* The float64 sum / float64(n), kept as the fraction in lowest terms
Quotient(sum, n) ==
    LET g == Gcd(Abs(sum), n) IN [num |-> sum \div g, den |-> n \div g]

Timestamps(s) == [i \in DOMAIN s |-> s[i].Timestamp]

\* Mutant: a slot at most one step after the previous one continues the run
RECURSIVE GroupLoop_AtMostStep(_, _, _, _, _)
GroupLoop_AtMostStep(slots, step, i, groups, group) ==
    IF i > Len(slots) THEN Append(groups, group)
    ELSE IF slots[i].Timestamp - slots[i - 1].Timestamp <= step
         THEN GroupLoop_AtMostStep(slots, step, i + 1, groups,
                                   Append(group, slots[i]))
         ELSE GroupLoop_AtMostStep(slots, step, i + 1, Append(groups, group),
                                   <<slots[i]>>)

\* The loop of lines 265-275: i is the 1-based index of cur
RECURSIVE GroupLoop(_, _, _, _, _)
GroupLoop(slots, step, i, groups, group) ==
    IF i > Len(slots) THEN Append(groups, group)
    ELSE IF slots[i].Timestamp - slots[i - 1].Timestamp = step
         THEN GroupLoop(slots, step, i + 1, groups, Append(group, slots[i]))
         ELSE GroupLoop(slots, step, i + 1, Append(groups, group), <<slots[i]>>)

\* Mutant: the interval ends at its last slot's timestamp
IntervalOf_EndAtLast(g, step) ==
    [Start    |-> FormatRFC3339(g[1].Timestamp),
     End      |-> FormatRFC3339(g[Len(g)].Timestamp),
     AvgPrice |-> Quotient(SumSeq([i \in DOMAIN g |-> g[i].Price]), Len(g))]

IntervalOf(g, step) ==
    [Start    |-> FormatRFC3339(g[1].Timestamp),
     End      |-> FormatRFC3339(g[Len(g)].Timestamp + step),
     AvgPrice |-> Quotient(SumSeq([i \in DOMAIN g |-> g[i].Price]), Len(g))]

\* Mutant: the comparison of the in-place sort reversed
GroupSort_Descending(slots) ==
    SortSlice(slots, [i \in DOMAIN slots |-> -slots[i].Timestamp])

\* sort.Slice by Timestamp ascending, in place (lines 257-259)
GroupSort(slots) == SortSlice(slots, Timestamps(slots))

\* The outcomes of groupConsecutiveSlots(slots, resolutionMinutes): what the
\* in-place sort leaves in slots, the groups, and the value returned.
groupConsecutiveSlots(slots, resolutionMinutes) ==
    IF Len(slots) = 0
    THEN {[slots |-> slots, groups |-> <<>>, intervals |-> NilSlice]}
    ELSE { LET groups == GroupLoop(sorted, resolutionMinutes, 2, <<>>, <<sorted[1]>>)
           IN [slots     |-> sorted,
               groups    |-> groups,
               intervals |-> Slice([k \in DOMAIN groups |->
                                       IntervalOf(groups[k], resolutionMinutes)])]
           : sorted \in GroupSort(slots) }

----------------------------------------------------------------------------
(* BuildBatterySchedule *)

\* A nullable *int
Null == <<>>
Ptr(v) == <<v>>

\* Mutant: p.Timestamp.After(now)
IsFuture_After(p, t) == p.Timestamp > t

\* !p.Timestamp.Before(now)
IsFuture(p, t) == ~(p.Timestamp < t)

\* Mutant: no slot is filtered out
FilterFuture_KeepAll(ps, t) == ps

\* The loop of lines 303-308
FilterFuture(ps, t) ==
    LET Keep(p) == IsFuture(p, t) IN SelectSeq(ps, Keep)

\* Mutant: the cap of 8 c/kWh left out
DischargeThreshold_Uncapped(p) == p.LastPriceCharged + p.Epsilon

\* Lines 333-336, in half cents
DischargeThreshold(p) ==
    LET dischargeThreshold == p.LastPriceCharged + p.Epsilon IN
    IF dischargeThreshold > Cents(8) THEN Cents(8) ELSE dischargeThreshold

\* Mutant: a gain of exactly epsilon does not qualify
IsChargeCandidate_Strict(s, p) == p.LastPriceCharged - s.Price > p.Epsilon

IsChargeCandidate(s, p) == p.LastPriceCharged - s.Price >= p.Epsilon

IsDischargeCandidate(s, p) == s.Price >= DischargeThreshold(p)

ChargeCandidates(fut, p) ==
    LET Keep(s) == IsChargeCandidate(s, p) IN SelectSeq(fut, Keep)

\* Mutant: a slot taken as a charge candidate is not a discharge candidate
DischargeCandidates_Exclusive(fut, p) ==
    LET Keep(s) == IsDischargeCandidate(s, p) /\ ~IsChargeCandidate(s, p)
    IN SelectSeq(fut, Keep)

DischargeCandidates(fut, p) ==
    LET Keep(s) == IsDischargeCandidate(s, p) IN SelectSeq(fut, Keep)

\* Mutant: charge candidates ranked priciest first
RankCharge_PriciestFirst(c) == SortSlice(c, [i \in DOMAIN c |-> -c[i].Price])

\* sort.Slice by Price ascending (lines 347-349)
RankCharge(c) == SortSlice(c, [i \in DOMAIN c |-> c[i].Price])

\* sort.Slice by Price descending (lines 350-352)
RankDischarge(c) == SortSlice(c, [i \in DOMAIN c |-> -c[i].Price])

\* sort.Slice by Timestamp ascending (lines 361-366)
SortByTimestamp(c) == SortSlice(c, Timestamps(c))

\* if len(c) > n { c = c[:n] } panics when n < 0
TruncatePanics(c, n) == Len(c) > n /\ n < 0

Truncate(c, n) == IF Len(c) > n THEN SubSeq(c, 1, n) ELSE c

toSlotJSON(slots) ==
    [i \in DOMAIN slots |->
        [Timestamp |-> FormatRFC3339(slots[i].Timestamp), Price |-> slots[i].Price]]

\* Lines 354-369 for one side: every way the ranked candidates may come out
\* is truncated to the budget, sorted by timestamp and handed to
\* groupConsecutiveSlots, which sorts the same slice again in place.
Selected(ranked, maxSlots, resolutionMinutes) ==
    LET truncated == {Truncate(r, maxSlots) : r \in ranked}
        sorted == UNION {SortByTimestamp(t) : t \in truncated}
    IN UNION {groupConsecutiveSlots(c, resolutionMinutes) : c \in sorted}

\* Lines 325-326 on each build: <<maxChargeSlots, maxDischargeSlots>>
SlotBudgets(p, resolutionMinutes) ==
    { <<slotsForHours(p.MaxChargeHours, resolutionMinutes, arch),
        slotsForHours(p.MaxDischargeHours, resolutionMinutes, arch)>> :
      arch \in Archs }

NoLocals ==
    [future |-> <<>>, resolution |-> 0, maxChargeSlots |-> 0,
     maxDischargeSlots |-> 0, chargeCandidates |-> <<>>,
     dischargeCandidates |-> <<>>]

NoSchedule ==
    [ResolutionMinutes |-> Null, ChargeSlots |-> <<>>, DischargeSlots |-> <<>>,
     ChargeIntervals |-> NilSlice, DischargeIntervals |-> NilSlice]

\* The ScheduleJSON of lines 310-319 (Area, LastPriceCharged and Epsilon are
\* copies of the parameters)
EmptySchedule ==
    [ResolutionMinutes |-> Null, ChargeSlots |-> <<>>, DischargeSlots |-> <<>>,
     ChargeIntervals |-> Slice(<<>>), DischargeIntervals |-> Slice(<<>>)]

BuildTimes == {0, 60, 120}
BuildPrices == {Cents(5), 17, Cents(16), Cents(18)}
BuildNows == {0, 60}
BuildStrategies ==
    {[LastPriceCharged |-> Cents(20), Epsilon |-> Cents(3)],
     [LastPriceCharged |-> Cents(10), Epsilon |-> Cents(5)],
     [LastPriceCharged |-> Cents(2),  Epsilon |-> Cents(3)]}
\* <<MaxChargeHours, MaxDischargeHours>> in half hours
BuildHours == {<<0, 1>>, <<1, Hours(2)>>, <<Hours(2), -1>>, <<Hours(-1), 0>>}

BuildInit ==
    /\ prices \in SeqUpTo({PriceSlot(t, p) : t \in BuildTimes, p \in BuildPrices},
                          MaxLen)
    /\ params \in {[LastPriceCharged  |-> st.LastPriceCharged,
                    Epsilon           |-> st.Epsilon,
                    MaxChargeHours    |-> h[1],
                    MaxDischargeHours |-> h[2]] :
                   st \in BuildStrategies, h \in BuildHours}
    /\ now \in BuildNows
    /\ pc = "call"
    /\ locals = NoLocals
    /\ schedule = NoSchedule

\* Lines 328-391 once future, resolution and the two budgets are known: the
\* ways the call may end
OutcomesFrom(future, resolution, budgets, p) ==
    LET maxChargeSlots == budgets[1]
        maxDischargeSlots == budgets[2]
        chargeCandidates == ChargeCandidates(future, p)
        dischargeCandidates == DischargeCandidates(future, p)
        ended == [future |-> future, resolution |-> resolution,
                  maxChargeSlots |-> maxChargeSlots,
                  maxDischargeSlots |-> maxDischargeSlots,
                  chargeCandidates |-> chargeCandidates,
                  dischargeCandidates |-> dischargeCandidates]
    IN IF \/ TruncatePanics(chargeCandidates, maxChargeSlots)
          \/ TruncatePanics(dischargeCandidates, maxDischargeSlots)
       THEN {[pc |-> "panicked", locals |-> ended, schedule |-> NoSchedule]}
       ELSE {[pc       |-> "returned",
              locals   |-> ended,
              schedule |->
                  [ResolutionMinutes  |-> Ptr(resolution),
                   ChargeSlots        |-> toSlotJSON(groupedC.slots),
                   DischargeSlots     |-> toSlotJSON(groupedD.slots),
                   ChargeIntervals    |-> groupedC.intervals,
                   DischargeIntervals |-> groupedD.intervals]] :
              groupedC \in Selected(RankCharge(chargeCandidates),
                                    maxChargeSlots, resolution),
              groupedD \in Selected(RankDischarge(dischargeCandidates),
                                    maxDischargeSlots, resolution)}

\* Lines 322-391 for a non-empty future
OutcomesOfFuture(future, resolution, p) ==
    UNION {OutcomesFrom(future, resolution, budgets, p) :
           budgets \in SlotBudgets(p, resolution)}

\* The ways BuildBatterySchedule(ps, p, t) may end: how it ended, its locals
\* then, and the ScheduleJSON returned
BuildOutcomes(ps, p, t) ==
    LET future == FilterFuture(ps, t) IN
    IF Len(future) = 0
    THEN {[pc |-> "returned", locals |-> NoLocals, schedule |-> EmptySchedule]}
    ELSE OutcomesOfFuture(future, inferResolutionMinutes(future), p)

BuildBatterySchedule ==
    /\ pc = "call"
    /\ \E o \in BuildOutcomes(prices, params, now) :
          /\ pc' = o.pc
          /\ locals' = o.locals
          /\ schedule' = o.schedule
    /\ UNCHANGED <<prices, params, now>>

----------------------------------------------------------------------------
(* A call of groupConsecutiveSlots on its own *)

GroupTimes == {0, 60, 120, 300}
GroupPrices == {Cents(3), 13}
GroupResolutions == {60, 120, 0}

GroupInit ==
    /\ gSlots \in SeqUpTo({PriceSlot(t, p) : t \in GroupTimes, p \in GroupPrices},
                          MaxGroupLen)
    /\ gResolution \in GroupResolutions
    /\ gPc = "call"
    /\ gGroups = <<>>
    /\ gIntervals = NilSlice

CallGroup ==
    /\ gPc = "call"
    /\ \E r \in groupConsecutiveSlots(gSlots, gResolution) :
          /\ gSlots' = r.slots
          /\ gGroups' = r.groups
          /\ gIntervals' = r.intervals
    /\ gPc' = "returned"
    /\ UNCHANGED gResolution

----------------------------------------------------------------------------
(* A call of inferResolutionMinutes on its own *)

InferTimes == {0, 60, 75, 90, 120}

InferInit ==
    /\ iPrices \in SeqUpTo({PriceSlot(t, Cents(5)) : t \in InferTimes}, MaxInferLen)
    /\ iPc = "call"
    /\ iResult = 0

CallInfer ==
    /\ iPc = "call"
    /\ iResult' = inferResolutionMinutes(iPrices)
    /\ iPc' = "returned"
    /\ UNCHANGED iPrices

----------------------------------------------------------------------------
(* Concurrent calls of BuildBatterySchedule given the same prices slice *)

\* A slice is the address of its backing array; heap gives the elements the
\* slice spans.  The callers share one array, and every append to a nil
\* slice (lines 303-308, 328-345) allocates an array of the call.  The calls
\* only read the shared array, so reading it in one step loses no
\* interleaving.  A panicking call ends; the other calls run on as they do
\* under a recovering caller, and every prefix is a run of a caller that
\* does not recover.
Procs == {"a", "b"}

\* The array behind the argument prices
PricesAddr == <<"caller", "prices">>

\* Mutant: the filter builds future in the caller's array
FutureAddr_CallerArray(p) == <<"caller", "prices">>

\* var future []PriceSlot, filled by append (lines 303-308)
FutureAddr(p) == <<p, "future">>

\* var chargeCandidates, dischargeCandidates []PriceSlot (lines 328-345)
ChargeAddr(p) == <<p, "chargeCandidates">>
DischargeAddr(p) == <<p, "dischargeCandidates">>

Addrs ==
    {PricesAddr} \cup (Procs \X {"future", "chargeCandidates", "dischargeCandidates"})

NoConcLocals ==
    [resolution |-> 0, maxChargeSlots |-> 0, maxDischargeSlots |-> 0,
     chargeIntervals |-> NilSlice, dischargeIntervals |-> NilSlice]

ConcTimes == {0, 60}
ConcPrices == {Cents(5), 17}
ConcNows == {0, 60}
ConcParams ==
    {[LastPriceCharged |-> Cents(20), Epsilon |-> Cents(3),
      MaxChargeHours |-> 1, MaxDischargeHours |-> Hours(2)],
     [LastPriceCharged |-> Cents(10), Epsilon |-> Cents(5),
      MaxChargeHours |-> Hours(2), MaxDischargeHours |-> 1]}

ConcInit ==
    /\ prices \in SeqUpTo({PriceSlot(t, c) : t \in ConcTimes, c \in ConcPrices},
                          MaxConcLen)
    /\ now \in ConcNows
    /\ heap = [a \in Addrs |-> IF a = PricesAddr THEN prices ELSE <<>>]
    /\ cParams \in [Procs -> ConcParams]
    /\ cPc = [p \in Procs |-> "filter"]
    /\ cLocals = [p \in Procs |-> NoConcLocals]
    /\ cResult = [p \in Procs |-> NoSchedule]

\* Lines 303-320
Filter(p) ==
    /\ cPc[p] = "filter"
    /\ \E future \in {FilterFuture(heap[PricesAddr], now)} :
          /\ heap' = [heap EXCEPT ![FutureAddr(p)] = future]
          /\ IF Len(future) = 0
             THEN /\ cPc' = [cPc EXCEPT ![p] = "returned"]
                  /\ cResult' = [cResult EXCEPT ![p] = EmptySchedule]
             ELSE /\ cPc' = [cPc EXCEPT ![p] = "budget"]
                  /\ UNCHANGED cResult
    /\ UNCHANGED <<cParams, cLocals>>

\* Lines 322-326
Budget(p) ==
    /\ cPc[p] = "budget"
    /\ \E resolution \in {inferResolutionMinutes(heap[FutureAddr(p)])} :
       \E budgets \in SlotBudgets(cParams[p], resolution) :
          cLocals' = [cLocals EXCEPT ![p] =
                         [@ EXCEPT !.resolution = resolution,
                                   !.maxChargeSlots = budgets[1],
                                   !.maxDischargeSlots = budgets[2]]]
    /\ cPc' = [cPc EXCEPT ![p] = "classify"]
    /\ UNCHANGED <<heap, cParams, cResult>>

\* Lines 328-345
Classify(p) ==
    /\ cPc[p] = "classify"
    /\ heap' = [heap EXCEPT
           ![ChargeAddr(p)] = ChargeCandidates(heap[FutureAddr(p)], cParams[p]),
           ![DischargeAddr(p)] =
               DischargeCandidates(heap[FutureAddr(p)], cParams[p])]
    /\ cPc' = [cPc EXCEPT ![p] = "rank"]
    /\ UNCHANGED <<cParams, cLocals, cResult>>

\* Lines 347-352
Rank(p) ==
    /\ cPc[p] = "rank"
    /\ \E c \in RankCharge(heap[ChargeAddr(p)]),
          d \in RankDischarge(heap[DischargeAddr(p)]) :
          heap' = [heap EXCEPT ![ChargeAddr(p)] = c, ![DischargeAddr(p)] = d]
    /\ cPc' = [cPc EXCEPT ![p] = "truncate"]
    /\ UNCHANGED <<cParams, cLocals, cResult>>

\* Lines 354-359
TruncateBoth(p) ==
    /\ cPc[p] = "truncate"
    /\ IF \/ TruncatePanics(heap[ChargeAddr(p)], cLocals[p].maxChargeSlots)
          \/ TruncatePanics(heap[DischargeAddr(p)], cLocals[p].maxDischargeSlots)
       THEN /\ cPc' = [cPc EXCEPT ![p] = "panicked"]
            /\ UNCHANGED heap
       ELSE /\ cPc' = [cPc EXCEPT ![p] = "sort"]
            /\ heap' = [heap EXCEPT
                   ![ChargeAddr(p)] = Truncate(@, cLocals[p].maxChargeSlots),
                   ![DischargeAddr(p)] = Truncate(@, cLocals[p].maxDischargeSlots)]
    /\ UNCHANGED <<cParams, cLocals, cResult>>

\* Lines 361-366
SortBoth(p) ==
    /\ cPc[p] = "sort"
    /\ \E c \in SortByTimestamp(heap[ChargeAddr(p)]),
          d \in SortByTimestamp(heap[DischargeAddr(p)]) :
          heap' = [heap EXCEPT ![ChargeAddr(p)] = c, ![DischargeAddr(p)] = d]
    /\ cPc' = [cPc EXCEPT ![p] = "group"]
    /\ UNCHANGED <<cParams, cLocals, cResult>>

\* Lines 368-369: groupConsecutiveSlots sorts the slice it is given in place
GroupBoth(p) ==
    /\ cPc[p] = "group"
    /\ \E c \in groupConsecutiveSlots(heap[ChargeAddr(p)], cLocals[p].resolution),
          d \in groupConsecutiveSlots(heap[DischargeAddr(p)], cLocals[p].resolution) :
          /\ heap' = [heap EXCEPT ![ChargeAddr(p)] = c.slots,
                                  ![DischargeAddr(p)] = d.slots]
          /\ cLocals' = [cLocals EXCEPT ![p] =
                            [@ EXCEPT !.chargeIntervals = c.intervals,
                                      !.dischargeIntervals = d.intervals]]
    /\ cPc' = [cPc EXCEPT ![p] = "return"]
    /\ UNCHANGED <<cParams, cResult>>

\* Lines 371-391
Return(p) ==
    /\ cPc[p] = "return"
    /\ cResult' = [cResult EXCEPT ![p] =
           [ResolutionMinutes  |-> Ptr(cLocals[p].resolution),
            ChargeSlots        |-> toSlotJSON(heap[ChargeAddr(p)]),
            DischargeSlots     |-> toSlotJSON(heap[DischargeAddr(p)]),
            ChargeIntervals    |-> cLocals[p].chargeIntervals,
            DischargeIntervals |-> cLocals[p].dischargeIntervals]]
    /\ cPc' = [cPc EXCEPT ![p] = "returned"]
    /\ UNCHANGED <<heap, cParams, cLocals>>

----------------------------------------------------------------------------
(* FetchNordpoolPricesCachedWithBase (cache.go) *)

\* A row of table prices is its key (area, market, currency), ts and
\* valid_until; price_cents and fetched_at are stored and returned as given
\* and decide nothing.  One process calls, one call after the other
\* (SetMaxOpenConns(1)), while the clock advances between any two statements.

\* 24 * time.Hour in minutes
DayMinutes == 1440

minSlotsPerDay == 20

\* The spacing of the deliveryStart instants the price source publishes
SlotMinutes == 60

\* The step in which the clock is seen to advance
TickMinutes == 720

\* time.Date(year, month, day, 0, 0, 0, 0, time.UTC) of the instant t
DayStart(t) == t - (t % DayMinutes)

getTodayAndTomorrowUTC(t) == <<DayStart(t), DayStart(t) + DayMinutes>>

\* The key the calls ask for, and the key of rows another caller stored
Key == [area |-> "FI", market |-> "DayAhead", currency |-> "EUR"]
OtherKey == [area |-> "SE3", market |-> "DayAhead", currency |-> "EUR"]

\* The row storePrices writes for a slot (lines 156-160)
Row(key, ts) ==
    [key |-> key, ts |-> ts, valid_until |-> DayStart(ts) + DayMinutes]

\* Mutant: a day is fresh only with more than minSlotsPerDay rows
hasFreshDay_MoreThanMin(rows, key, dayStart, nowUTC) ==
    LET dayEnd == dayStart + DayMinutes
        count == Cardinality({r \in rows :
                     /\ r.key = key
                     /\ r.ts >= dayStart /\ r.ts < dayEnd
                     /\ r.valid_until > nowUTC})
    IN count > minSlotsPerDay

hasFreshDay(rows, key, dayStart, nowUTC) ==
    LET dayEnd == dayStart + DayMinutes
        count == Cardinality({r \in rows :
                     /\ r.key = key
                     /\ r.ts >= dayStart /\ r.ts < dayEnd
                     /\ r.valid_until > nowUTC})
    IN count >= minSlotsPerDay

\* The loop of lines 42-52 over dates
NeedsRefresh(rows, key, dates, nowUTC) ==
    \E i \in DOMAIN dates : ~hasFreshDay(rows, key, dates[i], nowUTC)

\* The committed transaction of storePrices: one upsert per slot on the
\* primary key (area, market, currency, ts)
storePrices(rows, key, slots) ==
    {r \in rows : ~(r.key = key /\ r.ts \in slots)}
        \cup {Row(key, ts) : ts \in slots}

RECURSIVE Ascend(_)
\* The integers of a set in ascending order
Ascend(S) ==
    IF S = {} THEN <<>>
    ELSE LET least == CHOOSE x \in S : \A y \in S : x <= y
         IN <<least>> \o Ascend(S \ {least})

\* The ts of the rows loadPrices returns: those of today and tomorrow,
\* ORDER BY ts ASC
loadPrices(rows, key, today) ==
    Ascend({r.ts : r \in {q \in rows :
                            /\ q.key = key
                            /\ q.ts >= today
                            /\ q.ts < today + DayMinutes + DayMinutes}})

\* The first n slots of the day d
DaySlots(d, n) == {d + h * SlotMinutes : h \in 0..(n - 1)}

\* How many slots the price source may hold for a date: none yet (io.EOF),
\* one fewer than minSlotsPerDay, minSlotsPerDay, the whole day
UpstreamCounts ==
    {0, minSlotsPerDay - 1, minSlotsPerDay, DayMinutes \div SlotMinutes}

NoFetchLocals ==
    [now |-> Null, today |-> Null, needsRefresh |-> Null, prices |-> {},
     start |-> Null]

NoFetchResult == [prices |-> <<>>, err |-> FALSE, wrapped |-> ""]

\* return nil, err: wrapped is the failure the error reports
Failed(wrapped) == [prices |-> <<>>, err |-> TRUE, wrapped |-> wrapped]

CacheInit ==
    /\ clock = 0
    /\ cache \in {{}, {Row(OtherKey, ts) :
                         ts \in DaySlots(0, DayMinutes \div SlotMinutes)}}
    /\ found = {}
    /\ fPc = "idle"
    /\ fLocals = NoFetchLocals
    /\ fResult = NoFetchResult
    /\ contacted = FALSE

\* time.Now() is later at a later statement
Tick ==
    /\ clock < MaxTicks * TickMinutes
    /\ clock' = clock + TickMinutes
    /\ UNCHANGED <<cache, found, fPc, fLocals, fResult, contacted>>

\* cache.go 28-38: the cache directory and database are opened, then now is
\* read
Begin ==
    /\ fPc \in {"idle", "done"}
    /\ found' = cache
    /\ contacted' = FALSE
    /\ \E opened \in BOOLEAN :
          IF opened
          THEN /\ fLocals' = [NoFetchLocals EXCEPT !.now = Ptr(clock)]
               /\ fResult' = NoFetchResult
               /\ fPc' = "check"
          ELSE /\ fLocals' = NoFetchLocals
               /\ fResult' = Failed("open cache db")
               /\ fPc' = "done"
    /\ UNCHANGED <<clock, cache>>

\* cache.go 39-52: today and tomorrow are read and their freshness queried
Check ==
    /\ fPc = "check"
    /\ \E queried \in BOOLEAN :
       \E dates \in {getTodayAndTomorrowUTC(clock)} :
          IF queried
          THEN \E needsRefresh \in
                   {NeedsRefresh(cache, Key, dates, fLocals.now[1])} :
                  /\ fLocals' = [fLocals EXCEPT !.today = Ptr(dates[1]),
                                                !.needsRefresh = Ptr(needsRefresh)]
                  /\ fPc' = IF needsRefresh THEN "fetch" ELSE "load"
                  /\ UNCHANGED fResult
          ELSE /\ fLocals' = [fLocals EXCEPT !.today = Ptr(dates[1])]
               /\ fResult' = Failed("check freshness")
               /\ fPc' = "done"
    /\ UNCHANGED <<clock, cache, found, contacted>>

\* cache.go 54-58 and FetchNordpoolPricesWithBase: one request per date, in
\* order; a failed request, a status >= 300 or an undecodable body for a
\* date fails the call, whatever the date before it delivered
Fetch ==
    /\ fPc = "fetch"
    /\ contacted' = TRUE
    /\ \E failing \in {"none", "today", "tomorrow"} :
       \E dates \in {getTodayAndTomorrowUTC(clock)} :
       \E n1, n2 \in UpstreamCounts :
          IF failing = "none"
          THEN /\ fLocals' = [fLocals EXCEPT !.prices =
                                 DaySlots(dates[1], n1) \cup DaySlots(dates[2], n2)]
               /\ fPc' = "store"
               /\ UNCHANGED fResult
          ELSE /\ fResult' = Failed("upstream")
               /\ fPc' = "done"
               /\ UNCHANGED fLocals
    /\ UNCHANGED <<clock, cache, found>>

\* The rows of the transaction after the first k inserts of slots
InsertedUpTo(rows, key, slots, k) ==
    storePrices(rows, key, {slots[i] : i \in 1..k})

\* Mutant: the inserts made before the failure stay
Rollback_KeepInserted(before, inserted) == inserted

\* tx.Rollback() (lines 151, 162): the table is as before the transaction
Rollback(before, inserted) == before

\* The inserts at which storePrices may fail: BeginTx, PrepareContext or the
\* first insert, the second insert, the last insert
FailingInserts(n) == {k \in {0, 1, n - 1} : k >= 0 /\ k < n}

\* cache.go 59-61 and storePrices: nothing to store, or one transaction that
\* fails at an insert and is rolled back, or fails to commit, or commits
Store ==
    /\ fPc = "store"
    /\ IF fLocals.prices = {}
       THEN /\ fPc' = "load"
            /\ UNCHANGED <<cache, fResult>>
       ELSE \E slots \in {Ascend(fLocals.prices)} :
            \E failsAt \in FailingInserts(Len(slots)) \cup {Len(slots)} :
            \E committed \in BOOLEAN :
               IF failsAt < Len(slots)
               THEN /\ cache' = Rollback(cache,
                                   InsertedUpTo(cache, Key, slots, failsAt))
                    /\ fResult' = Failed("insert price")
                    /\ fPc' = "done"
               ELSE IF committed
               THEN /\ cache' = InsertedUpTo(cache, Key, slots, Len(slots))
                    /\ fPc' = "load"
                    /\ UNCHANGED fResult
               ELSE /\ fResult' = Failed("commit prices")
                    /\ fPc' = "done"
                    /\ UNCHANGED cache
    /\ UNCHANGED <<clock, found, fLocals, contacted>>

\* cache.go 64 and loadPrices
Load ==
    /\ fPc = "load"
    /\ \E loaded \in BOOLEAN :
       \E dates \in {getTodayAndTomorrowUTC(clock)} :
          /\ fLocals' = [fLocals EXCEPT !.start = Ptr(dates[1])]
          /\ fResult' = IF loaded
                        THEN [prices |-> loadPrices(cache, Key, dates[1]),
                              err |-> FALSE]
                        ELSE Failed("load prices")
    /\ fPc' = "done"
    /\ UNCHANGED <<clock, cache, found, contacted>>

----------------------------------------------------------------------------
(* The service worker: nextExpiry and handleApiRequest (sw.js) *)

\* Instants are minutes since a UTC midnight, the day of index 0; the
\* milliseconds of Date decide nothing that whole minutes do not.

\* now.getUTCDate() as a day index
getUTCDate(t) == t \div DayMinutes

\* Date.UTC(y, m, d, hours, minutes, 0, 0); a day past the end of the month
\* rolls over, so the day index is all that counts
DateUTC(d, hours, minutes) == d * DayMinutes + hours * 60 + minutes

\* Mutant: the daily publish of today is kept when it has passed
nextExpiry_PublishToday(t) ==
    LET d == getUTCDate(t)
        publish == DateUTC(d, 12, 30)
        midnight == DateUTC(d + 1, 0, 30)
    IN IF publish <= midnight THEN publish ELSE midnight

\* Lines 5-20
nextExpiry(t) ==
    LET d == getUTCDate(t)
        publish == IF DateUTC(d, 12, 30) <= t
                   THEN DateUTC(d + 1, 12, 30)
                   ELSE DateUTC(d, 12, 30)
        midnight == DateUTC(d + 1, 0, 30)
    IN IF publish <= midnight THEN publish ELSE midnight

\* A header value is a string, kept as its sequence of characters
DigitChars == <<"0", "1", "2", "3", "4", "5", "6", "7", "8", "9">>

DigitOf(c) == CHOOSE i \in 0..9 : DigitChars[i + 1] = c

IsDigit(c) == \E i \in 0..9 : DigitChars[i + 1] = c

RECURSIVE String(_)
\* String(n) for an integer n >= 0
String(n) ==
    IF n < 10 THEN <<DigitChars[n + 1]>>
    ELSE String(n \div 10) \o <<DigitChars[(n % 10) + 1]>>

RECURSIVE ParseDigits(_, _)
\* The value of the longest prefix of digits of str, after acc
ParseDigits(str, acc) ==
    IF str = <<>> \/ ~IsDigit(Head(str)) THEN acc
    ELSE ParseDigits(Tail(str), 10 * acc + DigitOf(Head(str)))

\* parseInt(str, 10) on a string without sign or blanks: Null is NaN
parseInt(str) ==
    IF str = <<>> \/ ~IsDigit(Head(str)) THEN Null
    ELSE Ptr(ParseDigits(str, 0))

\* parseInt(cached.headers.get('X-Expires-At') || '0', 10), line 45; a
\* missing header is Null and, like the empty string, gives '0'
ExpiresAt(header) ==
    IF header = Null THEN parseInt(<<"0">>) ELSE parseInt(header)

\* exp && now < exp, line 46: NaN and 0 are falsy
StillFresh(exp, nowMs) == exp # Null /\ exp[1] # 0 /\ nowMs < exp[1]

\* Response.ok
Ok(status) == status >= 200 /\ status <= 299

\* Line 57
NoBodyStatus(status) == status \in {204, 205, 304}

\* The handlers that may be under way at once, all for the same request URL
Handlers == {"h1", "h2"}

\* A stored Response: its status, its X-Expires-At header and, for a copy of
\* a network response, the instant that response arrived
Entry(status, expires, arrived) ==
    [status |-> status, expires |-> expires, arrived |-> arrived]

\* The instants the clock is read at: midnight and the two buffers of each
\* day
SwTimes ==
    {DateUTC(d, hm[1], hm[2]) :
        d \in 0..MaxSwDay,
        hm \in {<<0, 0>>, <<0, 30>>, <<12, 30>>}}

\* The statuses the network may answer with
NetStatuses == {200, 204, 500}

NoSwLocals ==
    [cached |-> Null, now |-> 0, network |-> Null, exp |-> Null,
     caught |-> FALSE]

NoAnswer == [kind |-> "none", response |-> Null]

\* The entries another version of the page may have left in the cache:
\* none, one without X-Expires-At, one whose X-Expires-At is no number
SwInit ==
    /\ wClock = 0
    /\ wCache \in {Null, Ptr(Entry(200, Null, Null)),
                   Ptr(Entry(200, <<"x">>, Null))}
    /\ wPut = [h \in Handlers |-> Null]
    /\ wPc = [h \in Handlers |-> "idle"]
    /\ wLocals = [h \in Handlers |-> NoSwLocals]
    /\ wResult = [h \in Handlers |-> NoAnswer]

SwTick ==
    /\ \E t \in SwTimes : t > wClock /\ wClock' = t
    /\ UNCHANGED <<wCache, wPut, wPc, wLocals, wResult>>

\* Lines 80-85: what the catch block answers
Caught(h) ==
    IF wLocals[h].cached # Null
    THEN [kind |-> "cached", response |-> wLocals[h].cached]
    ELSE [kind |-> "thrown", response |-> Null]

\* Lines 40-52: the cache is matched, now is read and a fresh entry is
\* returned; otherwise fetch(request) is started.  A handler starts in its
\* slot once the put of the handler before it has settled.
Match(h) ==
    /\ wPc[h] \in {"idle", "done"}
    /\ wPut[h] = Null
    /\ wLocals' = [wLocals EXCEPT ![h] =
           [NoSwLocals EXCEPT !.cached = wCache, !.now = wClock]]
    /\ IF wCache # Null /\ StillFresh(ExpiresAt(wCache[1].expires), wClock)
       THEN /\ wResult' = [wResult EXCEPT ![h] =
                   [kind |-> "cached", response |-> wCache]]
            /\ wPc' = [wPc EXCEPT ![h] = "done"]
       ELSE /\ wResult' = [wResult EXCEPT ![h] = NoAnswer]
            /\ wPc' = [wPc EXCEPT ![h] = "fetch"]
    /\ UNCHANGED <<wClock, wCache, wPut>>

\* Lines 52-67 and 79-85: fetch(request) rejects or resolves with a status
FetchSettles(h) ==
    /\ wPc[h] = "fetch"
    /\ \E resolved \in BOOLEAN :
       \E status \in NetStatuses :
       \E exp \in {String(nextExpiry(wClock))} :
       \E network \in {Entry(status, Null, Ptr(wClock))} :
          IF ~resolved
          THEN /\ wLocals' = [wLocals EXCEPT ![h].caught = TRUE]
               /\ wResult' = [wResult EXCEPT ![h] = Caught(h)]
               /\ wPc' = [wPc EXCEPT ![h] = "done"]
               /\ UNCHANGED wPut
          ELSE /\ wLocals' = [wLocals EXCEPT ![h].network = Ptr(network),
                                             ![h].exp = exp]
               /\ IF Ok(status) /\ ~NoBodyStatus(status)
                  THEN /\ wPc' = [wPc EXCEPT ![h] = "body"]
                       /\ UNCHANGED <<wPut, wResult>>
                  ELSE /\ wPut' = [wPut EXCEPT ![h] =
                              IF Ok(status)
                              THEN Ptr(Entry(status, exp, Ptr(wClock)))
                              ELSE Null]
                       /\ wResult' = [wResult EXCEPT ![h] =
                              [kind |-> "network", response |-> Ptr(network)]]
                       /\ wPc' = [wPc EXCEPT ![h] = "done"]
    /\ UNCHANGED <<wClock, wCache>>

\* Lines 69-85: clone.arrayBuffer() resolves, or rejects when the body does
\* not arrive
BodySettles(h) ==
    /\ wPc[h] = "body"
    /\ \E read \in BOOLEAN :
          IF read
          THEN /\ wPut' = [wPut EXCEPT ![h] =
                      Ptr(Entry(wLocals[h].network[1].status, wLocals[h].exp,
                                wLocals[h].network[1].arrived))]
               /\ wResult' = [wResult EXCEPT ![h] =
                      [kind |-> "network", response |-> wLocals[h].network]]
               /\ UNCHANGED wLocals
          ELSE /\ wLocals' = [wLocals EXCEPT ![h].caught = TRUE]
               /\ wResult' = [wResult EXCEPT ![h] = Caught(h)]
               /\ UNCHANGED wPut
    /\ wPc' = [wPc EXCEPT ![h] = "done"]
    /\ UNCHANGED <<wClock, wCache>>

\* Lines 67 and 76: cache.put is not awaited; it stores the copy later, or
\* rejects and stores nothing
PutSettles(h) ==
    /\ wPut[h] # Null
    /\ \E stored \in BOOLEAN :
          wCache' = IF stored THEN wPut[h] ELSE wCache
    /\ wPut' = [wPut EXCEPT ![h] = Null]
    /\ UNCHANGED <<wClock, wPc, wLocals, wResult>>

----------------------------------------------------------------------------
(* Specifications *)

NoParams ==
    [LastPriceCharged |-> 0, Epsilon |-> 0,
     MaxChargeHours |-> 0, MaxDischargeHours |-> 0]

\* No call of the kind is under way
BuildIdle ==
    /\ prices = <<>> /\ now = 0 /\ pc = "idle"
    /\ params = NoParams
    /\ locals = NoLocals /\ schedule = NoSchedule

GroupIdle ==
    /\ gSlots = <<>> /\ gResolution = 60 /\ gPc = "idle"
    /\ gGroups = <<>> /\ gIntervals = NilSlice

InferIdle == iPrices = <<>> /\ iPc = "idle" /\ iResult = 0

ConcIdle ==
    /\ heap = [a \in Addrs |-> <<>>]
    /\ cParams = [p \in Procs |-> NoParams]
    /\ cPc = [p \in Procs |-> "idle"]
    /\ cLocals = [p \in Procs |-> NoConcLocals]
    /\ cResult = [p \in Procs |-> NoSchedule]

CacheIdle ==
    /\ clock = 0 /\ cache = {} /\ found = {}
    /\ fPc = "unused"
    /\ fLocals = NoFetchLocals /\ fResult = NoFetchResult
    /\ contacted = FALSE

SwIdle ==
    /\ wClock = 0 /\ wCache = Null
    /\ wPut = [h \in Handlers |-> Null]
    /\ wPc = [h \in Handlers |-> "unused"]
    /\ wLocals = [h \in Handlers |-> NoSwLocals]
    /\ wResult = [h \in Handlers |-> NoAnswer]

\* One call of BuildBatterySchedule on any input of the domain
Init == BuildInit /\ GroupIdle /\ InferIdle /\ ConcIdle /\ CacheIdle /\ SwIdle

Next ==
    BuildBatterySchedule
        /\ UNCHANGED <<groupVars, inferVars, concVars, cacheVars, swVars>>

Spec == Init /\ [][Next]_vars

\* One call of groupConsecutiveSlots on any slots and resolution of the domain
InitGroup ==
    GroupInit /\ BuildIdle /\ InferIdle /\ ConcIdle /\ CacheIdle /\ SwIdle

NextGroup ==
    CallGroup /\ UNCHANGED <<buildVars, inferVars, concVars, cacheVars, swVars>>

SpecGroup == InitGroup /\ [][NextGroup]_vars

\* One call of inferResolutionMinutes on any price sequence of the domain
InitInfer ==
    InferInit /\ BuildIdle /\ GroupIdle /\ ConcIdle /\ CacheIdle /\ SwIdle

NextInfer ==
    CallInfer /\ UNCHANGED <<buildVars, groupVars, concVars, cacheVars, swVars>>

SpecInfer == InitInfer /\ [][NextInfer]_vars

\* Two calls of BuildBatterySchedule on one prices slice, interleaved in any
\* way
InitConc ==
    /\ ConcInit
    /\ pc = "idle" /\ params = NoParams
    /\ locals = NoLocals /\ schedule = NoSchedule
    /\ GroupIdle /\ InferIdle /\ CacheIdle /\ SwIdle

NextConc ==
    /\ \E p \in Procs :
          \/ Filter(p)
          \/ Budget(p)
          \/ Classify(p)
          \/ Rank(p)
          \/ TruncateBoth(p)
          \/ SortBoth(p)
          \/ GroupBoth(p)
          \/ Return(p)
    /\ UNCHANGED <<prices, params, now, pc, locals, schedule, groupVars,
                   inferVars, cacheVars, swVars>>

SpecConc == InitConc /\ [][NextConc]_vars

\* Calls of FetchNordpoolPricesCachedWithBase while time advances
InitCache ==
    CacheInit /\ BuildIdle /\ GroupIdle /\ InferIdle /\ ConcIdle /\ SwIdle

NextCache ==
    /\ \/ Tick
       \/ Begin
       \/ Check
       \/ Fetch
       \/ Store
       \/ Load
    /\ UNCHANGED <<buildVars, groupVars, inferVars, concVars, swVars>>

SpecCache == InitCache /\ [][NextCache]_vars

\* The service worker answering requests for one URL while time advances
InitSw ==
    SwInit /\ BuildIdle /\ GroupIdle /\ InferIdle /\ ConcIdle /\ CacheIdle

NextSw ==
    /\ \/ SwTick
       \/ \E h \in Handlers :
             \/ Match(h)
             \/ FetchSettles(h)
             \/ BodySettles(h)
             \/ PutSettles(h)
    /\ UNCHANGED <<buildVars, groupVars, inferVars, concVars, cacheVars>>

SpecSw == InitSw /\ [][NextSw]_vars

----------------------------------------------------------------------------
(* Properties of BuildBatterySchedule (Spec) *)

\* The PriceSlots a list of SlotJSON denotes
SlotsOf(js) ==
    [i \in DOMAIN js |-> PriceSlot(ParseRFC3339(js[i].Timestamp), js[i].Price)]

BagOfSeq(s) == [x \in Range(s) |-> Cardinality({i \in DOMAIN s : s[i] = x})]

\* A Schedule with a resolution was returned
Scheduled == pc = "returned" /\ schedule.ResolutionMinutes # Null

ReportedResolution == schedule.ResolutionMinutes[1]

\* count > ceil(totalMinutes / res) in float64 arithmetic: for an integer
\* count that is count - 1 >= totalMinutes / res; a zero res makes the bound
\* +Inf, NaN or -Inf, and only -Inf is exceeded.
Exceeds(count, totalMinutes, res) ==
    IF res > 0 THEN (count - 1) * res >= totalMinutes
    ELSE IF res < 0 THEN (count - 1) * res <= totalMinutes
    ELSE totalMinutes < 0

\* C1: in every Schedule returned with a resolution, the number of
\* chargeSlots does not exceed ceil(maxChargeHours*60/resolutionMinutes) and
\* the number of dischargeSlots does not exceed
\* ceil(maxDischargeHours*60/resolutionMinutes), for the resolution reported.
C1_BudgetRespected ==
    Scheduled =>
        /\ ~Exceeds(Len(schedule.ChargeSlots),
                    TotalMinutes(params.MaxChargeHours), ReportedResolution)
        /\ ~Exceeds(Len(schedule.DischargeSlots),
                    TotalMinutes(params.MaxDischargeHours), ReportedResolution)

\* Three charge candidates cut down to the two slots that two hours allow
C1_Witness ==
    /\ Scheduled
    /\ ReportedResolution = 60
    /\ params.MaxChargeHours = Hours(2)
    /\ Len(locals.chargeCandidates) = 3
    /\ Len(schedule.ChargeSlots) = 2

TimeOrdered(js) ==
    \A i, j \in DOMAIN js :
        i < j => ParseRFC3339(js[i].Timestamp) <= ParseRFC3339(js[j].Timestamp)

\* C2: whatever the order of the input and of the ranking, chargeSlots and
\* dischargeSlots are each returned in ascending order of timestamp.
C2_ChronologicalOutput ==
    pc = "returned" =>
        /\ TimeOrdered(schedule.ChargeSlots)
        /\ TimeOrdered(schedule.DischargeSlots)

\* The input is not in time order and the price ranking puts a later charge
\* slot before an earlier one
C2_Witness ==
    /\ Scheduled
    /\ \E i, j \in DOMAIN prices : i < j /\ prices[i].Timestamp > prices[j].Timestamp
    /\ \E i, j \in DOMAIN schedule.ChargeSlots :
          /\ i < j
          /\ ParseRFC3339(schedule.ChargeSlots[i].Timestamp)
               < ParseRFC3339(schedule.ChargeSlots[j].Timestamp)
          /\ schedule.ChargeSlots[i].Price > schedule.ChargeSlots[j].Price

\* The candidates that are not among the selected slots, as a bag
Dropped(candidates, selected) == BagOfSeq(candidates) (-) BagOfSeq(selected)

\* selected are the best ranked of candidates within budget; sign is 1 for
\* cheapest first and -1 for priciest first
KeepsBest(candidates, selected, budget, sign) ==
    IF Len(candidates) > budget
    THEN /\ Len(selected) = budget
         /\ BagOfSeq(selected) \sqsubseteq BagOfSeq(candidates)
         /\ \A s \in Range(selected) :
               \A d \in BagToSet(Dropped(candidates, selected)) :
                   sign * s.Price <= sign * d.Price
    ELSE BagOfSeq(selected) = BagOfSeq(candidates)

\* C3: when the charge candidates outnumber maxChargeSlots the selected
\* charge slots are maxChargeSlots of them and none is priced above a dropped
\* candidate; when the discharge candidates outnumber maxDischargeSlots the
\* selected discharge slots are maxDischargeSlots of them and none is priced
\* below a dropped candidate; otherwise all candidates are selected.
C3_KeepsBestCandidates ==
    Scheduled =>
        /\ KeepsBest(locals.chargeCandidates, SlotsOf(schedule.ChargeSlots),
                     locals.maxChargeSlots, 1)
        /\ KeepsBest(locals.dischargeCandidates, SlotsOf(schedule.DischargeSlots),
                     locals.maxDischargeSlots, -1)

\* Both sides are cut to one slot, and on each side a dropped candidate is
\* strictly worse than the selected one
C3_Witness ==
    /\ Scheduled
    /\ Len(locals.chargeCandidates) > locals.maxChargeSlots
    /\ Len(locals.dischargeCandidates) > locals.maxDischargeSlots
    /\ Len(schedule.ChargeSlots) = 1
    /\ Len(schedule.DischargeSlots) = 1
    /\ \E d \in Range(locals.chargeCandidates) :
          schedule.ChargeSlots[1].Price < d.Price
    /\ \E d \in Range(locals.dischargeCandidates) :
          schedule.DischargeSlots[1].Price > d.Price

\* lastPriceCharged - price >= epsilon
GainsEpsilon(s) == params.LastPriceCharged - s.Price >= params.Epsilon

\* The number of charge candidates other than future[i] that are cheaper
\* than it (strict) or priced at or below it (not strict)
Competitors(i, strict) ==
    Cardinality({j \in DOMAIN locals.future :
        /\ j # i
        /\ GainsEpsilon(locals.future[j])
        /\ IF strict THEN locals.future[j].Price < locals.future[i].Price
                     ELSE locals.future[j].Price <= locals.future[i].Price})

ChargeSelection(strict) ==
    Scheduled =>
        /\ \A s \in Range(schedule.ChargeSlots) : GainsEpsilon(s)
        /\ \A i \in DOMAIN locals.future :
              (/\ GainsEpsilon(locals.future[i])
               /\ Competitors(i, strict) < locals.maxChargeSlots)
              => locals.future[i] \in Range(SlotsOf(schedule.ChargeSlots))
        /\ \A i \in DOMAIN locals.future :
              ~GainsEpsilon(locals.future[i])
              => locals.future[i] \notin Range(SlotsOf(schedule.ChargeSlots))

\* C4 as stated: every slot of chargeSlots has lastPriceCharged - price >=
\* epsilon, no future slot that fails the test is in chargeSlots, and a future
\* slot that passes it is selected whenever the cheaper candidates do not
\* exhaust the charge budget.
C4_AsStated == ChargeSelection(TRUE)

\* C4, amended: every slot of chargeSlots has lastPriceCharged - price >=
\* epsilon, no future slot that fails the test is in chargeSlots, and a future
\* slot that passes it is selected whenever the other candidates priced at or
\* below its price do not exhaust the charge budget.
C4_ChargeSelection == ChargeSelection(FALSE)

\* lastPriceCharged = 20, epsilon = 3: a slot priced 16 is selected and a
\* future slot priced 18 is not
C4_Witness ==
    /\ Scheduled
    /\ params.LastPriceCharged = Cents(20) /\ params.Epsilon = Cents(3)
    /\ \E s \in Range(schedule.ChargeSlots) : s.Price = Cents(16)
    /\ \E s \in Range(locals.future) : s.Price = Cents(18)

MinOf(a, b) == IF a <= b THEN a ELSE b

\* min(lastPriceCharged + epsilon, 8)
CappedThreshold == MinOf(params.LastPriceCharged + params.Epsilon, Cents(8))

\* C5: a future slot is a discharge candidate iff its price is at least
\* min(lastPriceCharged + epsilon, 8), and every slot of dischargeSlots is
\* priced at least that.
C5_DischargeThreshold ==
    Scheduled =>
        /\ \A s \in Range(schedule.DischargeSlots) : s.Price >= CappedThreshold
        /\ \A s \in Range(locals.future) :
              s \in Range(locals.dischargeCandidates) <=> s.Price >= CappedThreshold
        /\ Range(SlotsOf(schedule.DischargeSlots)) \subseteq Range(locals.future)

\* lastPriceCharged = 10, epsilon = 5: a slot priced 8.5 is a discharge slot
C5_Witness ==
    /\ Scheduled
    /\ params.LastPriceCharged = Cents(10) /\ params.Epsilon = Cents(5)
    /\ \E s \in Range(schedule.DischargeSlots) : s.Price = 17

NoFutureSlot == \A i \in DOMAIN prices : prices[i].Timestamp < now

\* C6: the call returns a null resolutionMinutes iff no input slot has
\* timestamp >= now (it always returns then), and then the four lists are
\* empty.
C6_EmptyFuture ==
    /\ pc = "returned" => (schedule.ResolutionMinutes = Null <=> NoFutureSlot)
    /\ pc = "panicked" => ~NoFutureSlot
    /\ (pc = "returned" /\ NoFutureSlot) =>
          /\ schedule.ChargeSlots = <<>>
          /\ schedule.DischargeSlots = <<>>
          /\ schedule.ChargeIntervals.elems = <<>>
          /\ schedule.DischargeIntervals.elems = <<>>

\* A non-empty input, all of it in the past
C6_Witness ==
    /\ pc = "returned"
    /\ prices # <<>>
    /\ NoFutureSlot
    /\ schedule.ResolutionMinutes = Null

\* The slots of s with timestamp >= t, in the order of s
RECURSIVE NotBefore(_, _)
NotBefore(s, t) ==
    IF s = <<>> THEN <<>>
    ELSE IF Head(s).Timestamp >= t THEN <<Head(s)>> \o NotBefore(Tail(s), t)
         ELSE NotBefore(Tail(s), t)

\* C7: the call retains exactly the slots with timestamp >= now: no slot
\* before now is in chargeSlots or dischargeSlots, and the resolution is the
\* one inferred from the retained slots alone.
C7_FutureOnly ==
    /\ pc = "returned" =>
          \A s \in Range(SlotsOf(schedule.ChargeSlots))
                   \cup Range(SlotsOf(schedule.DischargeSlots)) : s.Timestamp >= now
    /\ (pc \in {"returned", "panicked"} /\ ~NoFutureSlot) =>
          locals.future = NotBefore(prices, now)
    /\ Scheduled =>
          ReportedResolution = inferResolutionMinutes(NotBefore(prices, now))

\* A slot at now is selected, and the past slots of the input would have
\* changed the resolution
C7_Witness ==
    /\ Scheduled
    /\ \E s \in Range(SlotsOf(schedule.ChargeSlots)) : s.Timestamp = now
    /\ \E i \in DOMAIN prices : prices[i].Timestamp < now
    /\ inferResolutionMinutes(prices) # ReportedResolution

\* The input is in ascending time order
Ascending(ps) ==
    \A i \in 1..(Len(ps) - 1) : ps[i].Timestamp <= ps[i + 1].Timestamp

\* Of two equally priced candidates the later is selected only if the
\* earlier is
EarlierTieKept(candidates, selected) ==
    \A a, b \in Range(candidates) :
        (/\ a.Price = b.Price
         /\ a.Timestamp < b.Timestamp
         /\ b \in Range(selected)) => a \in Range(selected)

\* C11: for input in time order, when equally priced candidates do not all
\* fit in the budget the earlier ones are kept and the later ones dropped, on
\* the charge side and on the discharge side.
C11_TieBreakStable ==
    (Scheduled /\ Ascending(prices)) =>
        /\ EarlierTieKept(locals.chargeCandidates, SlotsOf(schedule.ChargeSlots))
        /\ EarlierTieKept(locals.dischargeCandidates,
                          SlotsOf(schedule.DischargeSlots))

\* C12: every Schedule returned holds non-nil chargeIntervals and
\* dischargeIntervals (the two slot lists are made non-nil by toSlotJSON).
C12_ListsNeverNil ==
    pc = "returned" =>
        /\ ~schedule.ChargeIntervals.isNil
        /\ ~schedule.DischargeIntervals.isNil

\* C13: with non-negative maxChargeHours and maxDischargeHours the call
\* returns a Schedule for every price sequence, ordered or not.
C13_NeverPanics ==
    (params.MaxChargeHours >= 0 /\ params.MaxDischargeHours >= 0)
        => pc # "panicked"

\* C14: for input in time order, a zero or negative maxChargeHours makes the
\* call return a Schedule with empty chargeSlots and chargeIntervals, and a
\* zero or negative maxDischargeHours one with empty dischargeSlots and
\* dischargeIntervals.
C14_NonPositiveBudget ==
    (pc # "call" /\ Ascending(prices)) =>
        /\ params.MaxChargeHours <= 0 =>
              /\ pc = "returned"
              /\ schedule.ChargeSlots = <<>>
              /\ schedule.ChargeIntervals.elems = <<>>
        /\ params.MaxDischargeHours <= 0 =>
              /\ pc = "returned"
              /\ schedule.DischargeSlots = <<>>
              /\ schedule.DischargeIntervals.elems = <<>>

\* C15: a resolutionMinutes that is not null is positive.
C15_ResolutionPositive == Scheduled => ReportedResolution > 0

\* The orders in which the caller may hand over the same price slots
Reorderings(ps) ==
    {q \in [1..Len(ps) -> Range(ps)] : BagOfSeq(q) = BagOfSeq(ps)}

\* How a call may end and what it then returns, without its locals
Results(ps, p, t) ==
    {[pc |-> o.pc, schedule |-> o.schedule] : o \in BuildOutcomes(ps, p, t)}

\* C16: the result does not depend on the order of the input slice: whatever
\* the call does on prices, it may do on every permutation of prices
C16_OrderIndependent ==
    pc # "call" =>
        \A q \in Reorderings(prices) :
            [pc |-> pc, schedule |-> schedule] \in Results(q, params, now)

\* lastPriceCharged - price >= epsilon and price >= min(lastPriceCharged +
\* epsilon, 8)
SatisfiesBoth(s) == GainsEpsilon(s) /\ s.Price >= CappedThreshold

\* The number of future slots other than future[i] that pass the predicate
\* of one side and are priced at or better than future[i] on that side;
\* sign is 1 for charging and -1 for discharging
Rivals(i, sign) ==
    Cardinality({j \in DOMAIN locals.future :
        /\ j # i
        /\ IF sign = 1 THEN GainsEpsilon(locals.future[j])
                       ELSE locals.future[j].Price >= CappedThreshold
        /\ sign * locals.future[j].Price <= sign * locals.future[i].Price})

\* The number of future slots passing the predicate of one side
Passing(sign) ==
    Cardinality({j \in DOMAIN locals.future :
        IF sign = 1 THEN GainsEpsilon(locals.future[j])
                    ELSE locals.future[j].Price >= CappedThreshold})

\* C17: a future slot that satisfies both predicates and is within both
\* budgets appears in both chargeSlots and dischargeSlots, and each side
\* keeps as many slots as its own candidates and budget allow, whatever the
\* other side selected
C17_NoMutualExclusion ==
    Scheduled =>
        /\ \A i \in DOMAIN locals.future :
              ( /\ SatisfiesBoth(locals.future[i])
                /\ Rivals(i, 1) < locals.maxChargeSlots
                /\ Rivals(i, -1) < locals.maxDischargeSlots )
              => /\ locals.future[i] \in Range(SlotsOf(schedule.ChargeSlots))
                 /\ locals.future[i] \in Range(SlotsOf(schedule.DischargeSlots))
        /\ Len(schedule.ChargeSlots) = MinOf(Passing(1), locals.maxChargeSlots)
        /\ Len(schedule.DischargeSlots) =
               MinOf(Passing(-1), locals.maxDischargeSlots)

\* lastPriceCharged = 20, epsilon = 3: the slot priced 8.5 is both charged
\* and discharged, while the charge side dropped a candidate for its budget
C17_Witness ==
    /\ Scheduled
    /\ params.LastPriceCharged = Cents(20) /\ params.Epsilon = Cents(3)
    /\ Len(locals.chargeCandidates) > locals.maxChargeSlots
    /\ \E s \in Range(locals.future) :
          /\ s.Price = 17
          /\ s \in Range(SlotsOf(schedule.ChargeSlots))
          /\ s \in Range(SlotsOf(schedule.DischargeSlots))

\* The minutes covered by the slots of one side
SelectedMinutes(js) == Len(js) * ReportedResolution

\* C18 as stated: the selected duration of each side is at most the hour
\* budget of that side
C18_AsStated ==
    Scheduled =>
        /\ SelectedMinutes(schedule.ChargeSlots)
               <= TotalMinutes(params.MaxChargeHours)
        /\ SelectedMinutes(schedule.DischargeSlots)
               <= TotalMinutes(params.MaxDischargeHours)

\* C18: in a Schedule returned with a positive resolution the selected
\* duration of each side exceeds the hour budget of that side by less than
\* one slot
C18_WithinOneSlot ==
    (Scheduled /\ ReportedResolution > 0) =>
        /\ SelectedMinutes(schedule.ChargeSlots)
               < TotalMinutes(params.MaxChargeHours) + ReportedResolution
        /\ SelectedMinutes(schedule.DischargeSlots)
               < TotalMinutes(params.MaxDischargeHours) + ReportedResolution

\* Half an hour of charging at 60-minute resolution selects one whole slot
C18_Witness ==
    /\ Scheduled
    /\ ReportedResolution = 60
    /\ params.MaxChargeHours = 1
    /\ Len(schedule.ChargeSlots) = 1
    /\ SelectedMinutes(schedule.ChargeSlots) > TotalMinutes(params.MaxChargeHours)

----------------------------------------------------------------------------
(* Properties of groupConsecutiveSlots (SpecGroup) *)

RECURSIVE Flatten(_)
Flatten(ss) == IF ss = <<>> THEN <<>> ELSE Head(ss) \o Flatten(Tail(ss))

Last(s) == s[Len(s)]

\* Every adjacent pair of the run is exactly one step apart
IsRun(g, step) ==
    /\ g # <<>>
    /\ \A i \in 1..(Len(g) - 1) : g[i + 1].Timestamp = g[i].Timestamp + step

\* C8: groupConsecutiveSlots puts the slots in time order and cuts them into
\* runs, one interval per run: every slot is in exactly one run, inside a run
\* each slot is one resolution step after the one before, a run ends wherever
\* the next slot is not one step later, a lone slot is a run of its own, and
\* no interval starts where the interval before it ends.
C8_MaximalRuns ==
    gPc = "returned" =>
        LET iv == gIntervals.elems IN
        /\ \A i \in 1..(Len(gSlots) - 1) :
              gSlots[i].Timestamp <= gSlots[i + 1].Timestamp
        /\ Flatten(gGroups) = gSlots
        /\ Len(iv) = Len(gGroups)
        /\ \A k \in DOMAIN gGroups : IsRun(gGroups[k], gResolution)
        /\ \A k \in 1..(Len(gGroups) - 1) :
              gGroups[k + 1][1].Timestamp # Last(gGroups[k]).Timestamp + gResolution
        /\ \A k \in 1..(Len(iv) - 1) :
              ParseRFC3339(iv[k + 1].Start) # ParseRFC3339(iv[k].End)
        /\ Len(gSlots) = 1 => Len(iv) = 1

\* Slots at 00:00, 01:00, 02:00 and 05:00 at resolution 60, given out of
\* order, yield exactly two intervals
C8_Witness ==
    /\ gPc = "returned"
    /\ gResolution = 60
    /\ Timestamps(gSlots) = <<0, 60, 120, 300>>
    /\ Len(gIntervals.elems) = 2
    /\ Len(gGroups[1]) = 3

\* C9: the interval of a run starts at the timestamp of the run's first
\* slot, ends one resolution step after the timestamp of its last slot, and
\* its avgPrice is the sum of the run's prices divided by their number.
C9_IntervalOfRun ==
    gPc = "returned" =>
        \A k \in DOMAIN gIntervals.elems :
            LET iv == gIntervals.elems[k]
                g == gGroups[k]
            IN /\ ParseRFC3339(iv.Start) = g[1].Timestamp
               /\ ParseRFC3339(iv.End) = Last(g).Timestamp + gResolution
               /\ iv.AvgPrice.den > 0
               /\ iv.AvgPrice.num * Len(g)
                    = SumSeq([i \in DOMAIN g |-> g[i].Price]) * iv.AvgPrice.den

\* A run of two slots priced 3 and 6.5 has avgPrice 19/4 = 4.75 (19/2 half
\* cents)
C9_Witness ==
    /\ gPc = "returned"
    /\ \E k \in DOMAIN gGroups :
          /\ Len(gGroups[k]) = 2
          /\ gGroups[k][1].Price # gGroups[k][2].Price
          /\ gIntervals.elems[k].AvgPrice = [num |-> 19, den |-> 2]
          /\ gIntervals.elems[k].End = FormatRFC3339(gGroups[k][2].Timestamp + 60)

----------------------------------------------------------------------------
(* Properties of inferResolutionMinutes (SpecInfer) *)

\* The k-th smallest of the values of d, by counting
KthSmallest(d, k) ==
    CHOOSE x \in Range(d) :
        /\ Cardinality({i \in DOMAIN d : d[i] < x}) < k
        /\ Cardinality({i \in DOMAIN d : d[i] <= x}) >= k

\* Twice the statistical median of the values of d
TwiceMedian(d) ==
    LET n == Len(d) IN
    IF n % 2 = 1 THEN 2 * KthSmallest(d, (n + 1) \div 2)
    ELSE KthSmallest(d, n \div 2) + KthSmallest(d, n \div 2 + 1)

ConstantSpacing(ps, k) ==
    \A i \in 1..(Len(ps) - 1) : ps[i + 1].Timestamp - ps[i].Timestamp = k

\* C10: inferResolutionMinutes returns 60 for fewer than 2 slots; otherwise
\* an integer nearest to the median of the adjacent timestamp deltas in
\* minutes (mean of the two middle deltas when their number is even), which
\* for slots spaced at a constant k minutes is k.
C10_MedianDelta ==
    iPc = "returned" =>
        /\ Len(iPrices) < 2 => iResult = 60
        /\ Len(iPrices) >= 2 =>
              LET m2 == TwiceMedian(Deltas(iPrices)) IN
              /\ 2 * iResult - m2 \in {-1, 0, 1}
              /\ \A k \in Range(Deltas(iPrices)) :
                    ConstantSpacing(iPrices, k) => iResult = k

\* Deltas 60, 15 and 45: the median is the middle value 45, not the delta in
\* the middle position
C10_Witness ==
    /\ iPc = "returned"
    /\ Deltas(iPrices) = <<60, 15, 45>>
    /\ iResult = 45

\* Deltas 15 and 30: the mean 22.5 of the two is rounded to 23
C10_WitnessEven ==
    /\ iPc = "returned"
    /\ Deltas(iPrices) = <<15, 30>>
    /\ iResult = 23

----------------------------------------------------------------------------
(* Properties of concurrent calls of BuildBatterySchedule (SpecConc) *)

\* The Schedules the call of p may return when it runs alone on the prices
\* the callers passed
AloneReturns(p) ==
    {o.schedule : o \in {r \in BuildOutcomes(prices, cParams[p], now) :
                            r.pc = "returned"}}

AlonePanics(p) ==
    \E o \in BuildOutcomes(prices, cParams[p], now) : o.pc = "panicked"

\* C19: under every interleaving of calls given the same prices slice, the
\* caller's array keeps the elements it was passed with, a call that returned
\* returned a Schedule it may return when run alone, and a call panics only
\* if it may panic alone
C19_CallsDoNotInterfere ==
    /\ heap[PricesAddr] = prices
    /\ \A p \in Procs :
          /\ cPc[p] = "returned" => cResult[p] \in AloneReturns(p)
          /\ cPc[p] = "panicked" => AlonePanics(p)

\* Call a returned a Schedule with a charge slot while call b, given the
\* same two prices and other params, is between its sorts
C19_Witness ==
    /\ Len(prices) = 2
    /\ cParams["a"] # cParams["b"]
    /\ cPc["a"] = "returned"
    /\ Len(cResult["a"].ChargeSlots) = 1
    /\ cPc["b"] = "truncate"
    /\ Len(heap[DischargeAddr("b")]) = 2

----------------------------------------------------------------------------
(* Properties of FetchNordpoolPricesCachedWithBase (SpecCache) *)

\* The rows of the call's area, market and currency that the call found for
\* the UTC day starting at day with valid_until after its now
FreshRows(day) ==
    {r \in found : /\ r.key = Key
                   /\ DayStart(r.ts) = day
                   /\ r.valid_until > fLocals.now[1]}

\* For today or for tomorrow the call found fewer than 20 fresh rows
Stale ==
    \/ Cardinality(FreshRows(fLocals.today[1])) < 20
    \/ Cardinality(FreshRows(fLocals.today[1] + DayMinutes)) < 20

\* The call has read its now and its today
ReadClock == fLocals.now # Null /\ fLocals.today # Null

\* The freshness queries of the call were answered
Queried == fLocals.needsRefresh # Null

\* The ts of the cached rows of today and tomorrow, as of the call's load
CachedRows ==
    Ascend({r.ts : r \in {q \in found :
                            /\ q.key = Key
                            /\ DayStart(q.ts) \in {fLocals.start[1],
                                                   fLocals.start[1] + DayMinutes}}})

\* C20 as stated: a call contacts the upstream API if and only if the cache
\* holds fewer than 20 fresh rows for today or for tomorrow
C20_AsStated ==
    (fPc = "done" /\ ReadClock) => (contacted <=> Stale)

\* C20: a call contacts the upstream API only if the cache holds fewer than
\* 20 fresh rows for today or for tomorrow, and it does so whenever its
\* freshness queries were answered and found that; a call that finds both
\* days fresh returns the cached rows and leaves the cache as it is; and the
\* valid_until of every row is the midnight UTC after its slot's day
C20_FreshnessDecidesFetch ==
    /\ \A r \in cache : r.valid_until = DayStart(r.ts) + DayMinutes
    /\ contacted => (Queried /\ Stale)
    /\ (fPc \in {"store", "load", "done"} /\ Queried /\ Stale) => contacted
    /\ (fPc = "done" /\ Queried /\ ~Stale) =>
          /\ ~contacted
          /\ cache = found
          /\ ~fResult.err => fResult.prices = CachedRows

\* A day after the first call, a call found today and tomorrow fresh and
\* returned two whole days of cached rows without contacting upstream
C20_Witness ==
    /\ fPc = "done"
    /\ clock >= DayMinutes
    /\ Queried /\ ~Stale
    /\ ~contacted
    /\ Len(fResult.prices) >= 40
    /\ fLocals.now[1] >= DayMinutes

\* A day after the cache was filled for today and tomorrow, tomorrow has
\* become today and the new tomorrow is missing: the call contacts upstream
C20_WitnessExpired ==
    /\ fPc = "done"
    /\ contacted
    /\ fLocals.today[1] = DayMinutes
    /\ Cardinality(FreshRows(DayMinutes)) >= 20
    /\ Cardinality(FreshRows(DayMinutes + DayMinutes)) = 0

----------------------------------------------------------------------------
(* Properties of the service worker (SpecSw) *)

\* The X-Expires-At of the entry is set and lies after the instant t
ExpiresAfter(entry, t) ==
    /\ entry.expires # Null
    /\ parseInt(entry.expires) # Null
    /\ parseInt(entry.expires)[1] > t

\* The entries the worker wrote or is writing: copies of network responses
Written ==
    {e \in {wCache} \cup {wPut[h] : h \in Handlers} :
        e # Null /\ e[1].arrived # Null}

\* C21: a handler answers with the cached entry only if the entry's
\* X-Expires-At is set and after the handler's now, or its network fetch
\* failed (fetch or the transfer of the body rejected); a handler whose
\* fetch succeeded answers with the network response; only responses with an
\* ok status are written to the cache, each with an expiry strictly later
\* than the instant it arrived
C21_CachedOnlyFreshOrFallback ==
    /\ \A h \in Handlers :
          wPc[h] = "done" =>
             /\ wResult[h].kind = "cached" =>
                   \/ ExpiresAfter(wResult[h].response[1], wLocals[h].now)
                   \/ wLocals[h].caught
             /\ (wLocals[h].network # Null /\ ~wLocals[h].caught) =>
                   /\ wResult[h].kind = "network"
                   /\ wResult[h].response = wLocals[h].network
    /\ \A e \in Written :
          /\ Ok(e[1].status)
          /\ ExpiresAfter(e[1], e[1].arrived[1])

\* At 12:30 the entry the worker stored in the morning has expired; the
\* fetch fails and the handler falls back to that entry
C21_Witness ==
    \E h \in Handlers :
        /\ wPc[h] = "done"
        /\ wResult[h].kind = "cached"
        /\ wLocals[h].caught
        /\ wResult[h].response[1].arrived # Null
        /\ ~ExpiresAfter(wResult[h].response[1], wLocals[h].now)

\* A handler answers from the cache, without fetching, with an entry the
\* worker stored and that has not expired
C21_WitnessFresh ==
    \E h \in Handlers :
        /\ wPc[h] = "done"
        /\ wResult[h].kind = "cached"
        /\ ~wLocals[h].caught
        /\ wLocals[h].network = Null
        /\ wResult[h].response[1].arrived # Null

----------------------------------------------------------------------------
(* Failures of FetchNordpoolPricesCachedWithBase (SpecCache) *)

\* The call ended with the error that wrapped reports
EndedWith(wrapped) == fPc = "done" /\ fResult.err /\ fResult.wrapped = wrapped

\* The rows of the call's area, market and currency
KeyRows(rows) == {r \in rows : r.key = Key}

\* Every slot of the fetch is in the cache
WholeFetchStored ==
    \A ts \in fLocals.prices : \E r \in KeyRows(cache) : r.ts = ts

\* C22: a call whose upstream fetch fails had found the cache stale, returns
\* an error and no prices, and leaves the cache as it found it; so does a
\* call whose storePrices fails; and the cache is at all times as the call
\* found it or holds every slot of the fetch
C22_FailureLeavesCache ==
    /\ EndedWith("upstream") =>
          /\ fLocals.needsRefresh = Ptr(TRUE)
          /\ fResult.prices = <<>>
          /\ cache = found
    /\ (EndedWith("insert price") \/ EndedWith("commit prices")) =>
          /\ fResult.prices = <<>>
          /\ cache = found
    /\ cache = found \/ WholeFetchStored

\* Today and tomorrow were cached; a day later the upstream fetch fails and
\* the call returns no prices although today's rows are in the cache
C22_Witness ==
    /\ EndedWith("upstream")
    /\ fLocals.today = Ptr(DayMinutes)
    /\ Cardinality({r \in KeyRows(found) : DayStart(r.ts) = DayMinutes}) >= 20

\* An insert of a fetch of two whole days failed over a cache that held rows
\* of the day
C22_WitnessRollback ==
    /\ EndedWith("insert price")
    /\ Cardinality(fLocals.prices) >= 40
    /\ KeyRows(found) # {}

====
